---- MODULE Spec2Model ----
(***************************************************************************)
(* Model of the atcoder-mcp request loop (src/main.rs): a line-delimited   *)
(* JSON-RPC dispatcher that reads one line of stdin at a time, decodes it  *)
(* into a JsonRcpRequest, matches on the method and, for tools/call,       *)
(* awaits one of two fetchers before printing the reply on stdout.         *)
(***************************************************************************)
EXTENDS Integers, Sequences, FiniteSets

\* Number of input lines the reader hands to the loop in one run.
MaxLines == 3

(***************************************************************************)
(* serde_json values.  A scalar is [t, s] with s its text; an object is    *)
(* [t, m] with m its set of <<key, value>> members.                        *)
(***************************************************************************)
JNull == [t |-> "null"]
JStr(s) == [t |-> "str", s |-> s]
JNum(n) == [t |-> "num", s |-> n]
JBool(b) == [t |-> "bool", s |-> b]
JObj(m) == [t |-> "obj", m |-> m]

\* A member that the text of a JSON object does not have.
Absent == [t |-> "absent"]

\* Rust's Option::None.
None == [t |-> "none"]

\* Deserialize for Option<serde_json::Value>: a missing member and a JSON
\* null both become None; any other value v becomes Some(v), written v.
OptionValue(raw) ==
    IF raw = Absent \/ raw = JNull THEN None ELSE raw

\* ToJson with the id taken for a string.
ToJsonAsString(opt) ==
    IF opt = None THEN JNull ELSE JStr(opt.s)

\* Serialize for Option<serde_json::Value> inside json!: None is written null.
ToJson(opt) ==
    IF opt = None THEN JNull ELSE opt

\* serde_json's Index<&str> for Value: the member of an object, and Null for
\* a missing key or a value that is no object.
Index(v, key) ==
    IF v.t = "obj" /\ (\E p \in v.m : p[1] = key)
    THEN (CHOOSE p \in v.m : p[1] = key)[2]
    ELSE JNull

\* AsStr with numbers and booleans given as their text.
AsStrOfScalar(v) ==
    IF v.t \in {"str", "num", "bool"} THEN JStr(v.s) ELSE None

\* Value::as_str: Some(&str) for a JSON string, None otherwise.
AsStr(v) ==
    IF v.t = "str" THEN v ELSE None

\* Option<&str>::unwrap_or.
UnwrapOr(opt, default) ==
    IF opt = None THEN default ELSE opt.s

(***************************************************************************)
(* The input alphabet: the lines the client may send.  Every method is     *)
(* sent without an id, with a number id and with a string id; a null id    *)
(* and params on a method that needs none are sent too.  tools/call is     *)
(* sent with every shape of params, name and arguments.                    *)
(***************************************************************************)
Members(S) == {p \in S : p[2] # Absent}

ContestIds == {Absent, JNum("335"), JStr("abc335")}
ProblemIds == {Absent, JBool("true"), JStr("abc335_a")}

ArgObjects ==
    {JObj(Members({<<"contest_id", c>>, <<"problem_id", p>>})) :
        c \in ContestIds, p \in ProblemIds}

FullArgs ==
    JObj({<<"contest_id", JStr("abc335")>>, <<"problem_id", JStr("abc335_a")>>})

Arguments == {Absent, JStr("abc335")} \cup ArgObjects

ParamsOf(name, arguments) ==
    JObj(Members({<<"name", name>>, <<"arguments", arguments>>}))

SomeParams == ParamsOf(JStr("fetch_problem"), FullArgs)

NumId == JNum("2")
StrId == JStr("a")

RequestLine(method, params, id) ==
    [kind |-> "request", method |-> method, params |-> params, id |-> id]

\* Lines that are no Request: the empty line, a line of spaces, text that is
\* no JSON, and a JSON object without a method string.
BadLine(kind, id) ==
    [kind |-> kind, method |-> "", params |-> Absent, id |-> id]

PlainLines ==
    {RequestLine(m, Absent, i) :
        m \in {"initialize", "tools/list"}, i \in {Absent, JNull, NumId, StrId}}
    \cup {RequestLine(m, Absent, i) :
        m \in {"notifications/initialized", "ping"}, i \in {Absent, NumId}}
    \cup {RequestLine(m, SomeParams, NumId) :
        m \in {"initialize", "tools/list", "notifications/initialized", "ping"}}

ToolLines ==
    {RequestLine("tools/call", ParamsOf(JStr("fetch_problem"), a), NumId) :
        a \in Arguments}
    \cup {RequestLine("tools/call", ParamsOf(JStr("fetch_editorial"), a), NumId) :
        a \in Arguments}
    \cup {RequestLine("tools/call", ParamsOf(JStr("fetch_problem"), FullArgs), i) :
        i \in {Absent, JNull}}
    \cup {RequestLine("tools/call", ParamsOf(JStr("fetch_editorial"), FullArgs), StrId)}

DroppedCallLines ==
    {RequestLine("tools/call", p, NumId) :
        p \in {Absent, JNull, JStr("fetch_problem"),
               ParamsOf(Absent, FullArgs), ParamsOf(JNum("7"), FullArgs),
               ParamsOf(JStr("bogus_tool"), FullArgs),
               ParamsOf(JStr("bogus_tool"), Absent)}}
    \cup {RequestLine("tools/call", p, Absent) :
        p \in {Absent, ParamsOf(JStr("bogus_tool"), FullArgs)}}

Lines ==
    PlainLines \cup ToolLines \cup DroppedCallLines
    \cup {BadLine("empty", Absent), BadLine("blank", Absent),
          BadLine("garbage", Absent)}
    \cup {BadLine("nomethod", i) : i \in {Absent, NumId}}

(***************************************************************************)
(* Reading and decoding.                                                   *)
(***************************************************************************)
\* String::is_empty on the line that BufRead::lines yields.
IsEmpty(line) == line.kind = "empty"

\* serde_json::from_str::<JsonRcpRequest> succeeds on a JSON object that has
\* a method string.
Parses(line) == line.kind = "request"

\* The JsonRcpRequest that from_str builds.
Decode(line) ==
    [method |-> line.method,
     params |-> OptionValue(line.params),
     id |-> OptionValue(line.id)]

(***************************************************************************)
(* The fetchers.  What the network and the page do is the environment's    *)
(* choice: the page is served and holds the element, the server answers    *)
(* with a non-success status, the request fails, or the element is absent. *)
(***************************************************************************)
FetchOutcomes == {"ok", "http_status", "network", "no_element"}

Ok(s) == [ok |-> TRUE, s |-> s]
Err(s) == [ok |-> FALSE, s |-> s]

\* Display of the reqwest StatusCode of a 404 answer: code and reason.
StatusDisplay == "404 Not Found"

\* Display of the reqwest error of a request that could not be sent.
SendError == "error sending request"

\* fetch_problem with the status written as its number alone.
fetch_problemStatusNumber(contest_id, problem_id, o) ==
    CASE o = "network" -> Err(SendError)
      [] o = "http_status" -> Ok("Error: Failed to fetch page. Status: 404")
      [] o = "ok" -> Ok("problem statement")
      [] o = "no_element" ->
            Ok("Error: Could not find problem statement in HTML.")

\* fetch_problem: anyhow::Result<String>.
fetch_problem(contest_id, problem_id, o) ==
    CASE o = "network" -> Err(SendError)
      [] o = "http_status" ->
            Ok("Error: Failed to fetch page. Status: " \o StatusDisplay)
      [] o = "ok" -> Ok("problem statement")
      [] o = "no_element" ->
            Ok("Error: Could not find problem statement in HTML.")

\* fetch_editorial: anyhow::Result<String>.
fetch_editorial(contest_id, problem_id, o) ==
    CASE o = "network" -> Err(SendError)
      [] o = "http_status" ->
            Ok("Error: Failed to fetch editorial page. Status: " \o StatusDisplay)
      [] o = "ok" -> Ok("editorial text")
      [] o = "no_element" ->
            Ok("Error: Could not find content in editorial page.")

\* .unwrap_or_else(|e| e.to_string()) of the fetch_problem arm.
ProblemResultText(res) ==
    IF res.ok THEN res.s ELSE res.s

\* .unwrap_or_else(|e| format!("Error: {}", e)) of the fetch_editorial arm.
EditorialResultText(res) ==
    IF res.ok THEN res.s ELSE "Error: " \o res.s

(***************************************************************************)
(* The replies, as the JSON values that json! builds and println! writes.  *)
(***************************************************************************)
InitializeResult ==
    [protocolVersion |-> "2024-11-05",
     capabilities |-> [tools |-> {}],
     serverInfo |-> [name |-> "atcoder-hint-mcp", version |-> "0.1.0"]]

InitializeResponse(id) ==
    [jsonrpc |-> "2.0", id |-> ToJson(id), result |-> InitializeResult]

InputSchema ==
    [type |-> "object",
     properties |-> [contest_id |-> [type |-> "string"],
                     problem_id |-> [type |-> "string"]],
     required |-> <<"contest_id", "problem_id">>]

\* The two descriptors, in the order of the source; each description stands
\* for the Japanese text of the source, which is a literal too.
ToolDescriptors ==
    << [name |-> "fetch_problem",
        description |-> "AtCoder problem statement",
        inputSchema |-> InputSchema],
       [name |-> "fetch_editorial",
        description |-> "AtCoder editorial page",
        inputSchema |-> InputSchema] >>

\* ToolsListResponse with the descriptors in an order that varies.
ToolsListResponseUnordered(id) ==
    [jsonrpc |-> "2.0", id |-> ToJson(id),
     result |-> [tools |-> IF id = None
                           THEN <<ToolDescriptors[2], ToolDescriptors[1]>>
                           ELSE ToolDescriptors]]

ToolsListResponse(id) ==
    [jsonrpc |-> "2.0", id |-> ToJson(id),
     result |-> [tools |-> ToolDescriptors]]

\* ToolCallResponse with a failure text sent as a protocol error.
ToolCallResponseWithError(id, result_text) ==
    IF Len(result_text) >= 6 /\ SubSeq(result_text, 1, 6) = "Error:"
    THEN [jsonrpc |-> "2.0", id |-> ToJson(id),
          error |-> [code |-> -32000, message |-> result_text]]
    ELSE [jsonrpc |-> "2.0", id |-> ToJson(id),
          result |-> [content |-> << [type |-> "text", text |-> result_text] >>]]

ToolCallResponse(id, result_text) ==
    [jsonrpc |-> "2.0", id |-> ToJson(id),
     result |-> [content |-> << [type |-> "text", text |-> result_text] >>]]

(***************************************************************************)
(* The dispatcher's case split.                                            *)
(***************************************************************************)
\* MethodArm with the initialized notification taken for initialize.
MethodArmInitializedAsInitialize(req) ==
    CASE req.method \in {"initialize", "notifications/initialized"} -> "initialize"
      [] req.method = "tools/list" -> "tools/list"
      [] req.method = "tools/call" -> "tools/call"
      [] OTHER -> "ignore"

\* match req.method.as_str()
MethodArm(req) ==
    CASE req.method = "initialize" -> "initialize"
      [] req.method = "notifications/initialized" -> "initialized"
      [] req.method = "tools/list" -> "tools/list"
      [] req.method = "tools/call" -> "tools/call"
      [] OTHER -> "ignore"

\* ToolName with a name that is no string read as the empty string.
ToolNameOrEmpty(req) ==
    IF req.params = None
    THEN None
    ELSE JStr(UnwrapOr(AsStr(Index(req.params, "name")), ""))

\* ToolName with absent params read as an object without members.
ToolNameOfEmptyParams(req) ==
    IF req.params = None THEN JStr("") ELSE AsStr(Index(req.params, "name"))

\* if let Some(params) = req.params { if let Some(tool_name) =
\* params["name"].as_str() { .. } }: the tool name, or None when either
\* pattern fails.
ToolName(req) ==
    IF req.params = None THEN None ELSE AsStr(Index(req.params, "name"))

\* ToolArm with fetch_problem as the default arm.
ToolArmDefaultsToProblem(tool_name) ==
    CASE tool_name = "fetch_editorial" -> "fetch_editorial"
      [] OTHER -> "fetch_problem"

\* ToolArm without the fetch_editorial arm.
ToolArmProblemOnly(tool_name) ==
    CASE tool_name = "fetch_problem" -> "fetch_problem"
      [] OTHER -> "unknown_tool"

\* match tool_name
ToolArm(tool_name) ==
    CASE tool_name = "fetch_problem" -> "fetch_problem"
      [] tool_name = "fetch_editorial" -> "fetch_editorial"
      [] OTHER -> "unknown_tool"

\* ToolArgument with contest_id read for both parameters.
ToolArgumentContestOnly(params, key) ==
    UnwrapOr(AsStr(Index(Index(params, "arguments"), "contest_id")), "")

\* args["contest_id"].as_str().unwrap_or("") with args = &params["arguments"],
\* and the same for problem_id.
ToolArgument(params, key) ==
    UnwrapOr(AsStr(Index(Index(params, "arguments"), key)), "")

(***************************************************************************)
(* State.                                                                  *)
(*   pc       where main is: "read" at the head of the line loop, "await"  *)
(*            inside a fetcher's .await, "done" after Ok(()), "failed"     *)
(*            after line? returned the read error                          *)
(*   out      the lines written to stdout, oldest first                    *)
(*   cur      the line being handled (the last one read)                   *)
(*   call     the fetcher call made for cur                                *)
(*   errLine  what handling cur wrote to stderr                            *)
(*   outcome  how the fetcher call made for cur ended                      *)
(*   mark     Len(out) when cur was read                                   *)
(*   nread    number of lines read                                         *)
(***************************************************************************)
VARIABLES pc, out, cur, call, errLine, outcome, mark, nread

vars == <<pc, out, cur, call, errLine, outcome, mark, nread>>

NoLine == BadLine("none", Absent)
NoCall == [tool |-> "", contest_id |-> "", problem_id |-> ""]
NoDiag == ""
NoOutcome == "none"

Init ==
    /\ pc = "read"
    /\ out = <<>>
    /\ cur = NoLine
    /\ call = NoCall
    /\ errLine = NoDiag
    /\ outcome = NoOutcome
    /\ mark = 0
    /\ nread = 0

\* The lines that take each path through the loop body.
EmptyLines == {line \in Lines : IsEmpty(line)}
UnparsedLines == {line \in Lines : ~IsEmpty(line) /\ ~Parses(line)}
RequestLines == {line \in Lines : ~IsEmpty(line) /\ Parses(line)}
ArmLines(arm) == {line \in RequestLines : MethodArm(Decode(line)) = arm}
InitializeLines == ArmLines("initialize")
InitializedLines == ArmLines("initialized")
ToolsListLines == ArmLines("tools/list")
ToolsCallLines == ArmLines("tools/call")
IgnoredLines == ArmLines("ignore")
NoNameLines == {line \in ToolsCallLines : ToolName(Decode(line)) = None}
NamedLines == ToolsCallLines \ NoNameLines
UnknownToolLines ==
    {line \in NamedLines : ToolArm(ToolName(Decode(line)).s) = "unknown_tool"}
FetchLines == NamedLines \ UnknownToolLines

\* for line in stdin.lock().lines() { let line = line?; .. }: the next line.
Read(line) ==
    /\ nread' = nread + 1
    /\ outcome' = NoOutcome
    /\ cur' = line
    /\ mark' = Len(out)

\* The loop is at its head and the reader has a line to give.
CanRead ==
    /\ pc = "read"
    /\ nread < MaxLines

\* A pass of the loop body that writes nothing and calls nothing.
Silent ==
    /\ out' = out
    /\ call' = NoCall
    /\ errLine' = NoDiag
    /\ pc' = "read"

\* eprintln! and on to the next line.
Eprintln(text) ==
    /\ out' = out
    /\ call' = NoCall
    /\ errLine' = text
    /\ pc' = "read"

\* println!("{}", response) and on to the next line.
Println(response) ==
    /\ out' = Append(out, response)
    /\ call' = NoCall
    /\ errLine' = NoDiag
    /\ pc' = "read"

\* if line.is_empty() { continue; }
SkipEmptyLine ==
    /\ CanRead
    /\ \E line \in EmptyLines :
        /\ Read(line)
        /\ Silent

\* ParseError with the decode failure returned from main.
ParseErrorFatal ==
    /\ CanRead
    /\ \E line \in UnparsedLines :
        /\ Read(line)
        /\ out' = out
        /\ call' = NoCall
        /\ errLine' = "Parse error"
        /\ pc' = "failed"

\* Err(e) => { eprintln!("Parse error: {}", e); continue; }
ParseError ==
    /\ CanRead
    /\ \E line \in UnparsedLines :
        /\ Read(line)
        /\ Eprintln("Parse error")

\* Initialize with a second initialize of a run refused.
InitializeOnce ==
    /\ CanRead
    /\ \E line \in InitializeLines :
        /\ Read(line)
        /\ IF \E i \in 1..Len(out) : out[i].result = InitializeResult
           THEN Println([jsonrpc |-> "2.0", id |-> ToJson(Decode(line).id),
                         result |-> [protocolVersion |-> "2024-11-05",
                                     capabilities |-> [tools |-> {}],
                                     serverInfo |-> [name |-> "atcoder-hint-mcp",
                                                     version |-> "0.1.0"],
                                     alreadyInitialized |-> TRUE]])
           ELSE Println(InitializeResponse(Decode(line).id))

Initialize ==
    /\ CanRead
    /\ \E line \in InitializeLines :
        /\ Read(line)
        /\ Println(InitializeResponse(Decode(line).id))

Initialized ==
    /\ CanRead
    /\ \E line \in InitializedLines :
        /\ Read(line)
        /\ Silent

\* ToolsList with the list withheld until an initialize has been answered.
ToolsListAfterInitialize ==
    /\ CanRead
    /\ \E line \in ToolsListLines :
        /\ Read(line)
        /\ IF \E i \in 1..Len(out) : out[i].result = InitializeResult
           THEN Println(ToolsListResponse(Decode(line).id))
           ELSE Silent

ToolsList ==
    /\ CanRead
    /\ \E line \in ToolsListLines :
        /\ Read(line)
        /\ Println(ToolsListResponse(Decode(line).id))

\* tools/call without params, or with a name that is no string.
ToolsCallNoName ==
    /\ CanRead
    /\ \E line \in NoNameLines :
        /\ Read(line)
        /\ Silent

\* unknown_tool => eprintln!("Unknown tool called: {}", unknown_tool)
ToolsCallUnknownTool ==
    /\ CanRead
    /\ \E line \in UnknownToolLines :
        /\ Read(line)
        /\ Eprintln("Unknown tool called: " \o ToolName(Decode(line)).s)

\* The fetcher call of a tools/call line that names a registered tool.
FetcherCall(line) ==
    [tool |-> ToolArm(ToolName(Decode(line)).s),
     contest_id |-> ToolArgument(Decode(line).params, "contest_id"),
     problem_id |-> ToolArgument(Decode(line).params, "problem_id")]

\* ToolsCallFetch with the fetcher spawned as a task and not awaited.
ToolsCallFetchSpawned ==
    /\ CanRead
    /\ \E line \in FetchLines :
        /\ Read(line)
        /\ call' = FetcherCall(line)
        /\ out' = out
        /\ errLine' = NoDiag
        /\ pc' = "read"

\* A registered tool: the arguments are extracted and the fetcher is called;
\* main is suspended in its .await.
ToolsCallFetch ==
    /\ CanRead
    /\ \E line \in FetchLines :
        /\ Read(line)
        /\ call' = FetcherCall(line)
        /\ out' = out
        /\ errLine' = NoDiag
        /\ pc' = "await"

\* The result text of the fetcher call `c` ending in `outcome`.
ResultText(c, o) ==
    IF c.tool = "fetch_problem"
    THEN ProblemResultText(fetch_problem(c.contest_id, c.problem_id, o))
    ELSE EditorialResultText(fetch_editorial(c.contest_id, c.problem_id, o))

\* FetchDone with the fetcher's Err returned from main by `?`.
FetchDoneOrFail ==
    /\ pc = "await"
    /\ \E o \in FetchOutcomes :
        /\ outcome' = o
        /\ IF o = "network"
           THEN out' = out /\ pc' = "failed"
           ELSE /\ out' = Append(out, ToolCallResponse(Decode(cur).id,
                                                        ResultText(call, o)))
                /\ pc' = "read"
        /\ UNCHANGED <<cur, call, errLine, mark, nread>>

\* The fetcher completes; the reply is built and printed.
FetchDone ==
    /\ pc = "await"
    /\ \E o \in FetchOutcomes :
        /\ outcome' = o
        /\ out' = Append(out, ToolCallResponse(Decode(cur).id, ResultText(call, o)))
        /\ pc' = "read"
        /\ UNCHANGED <<cur, call, errLine, mark, nread>>

\* UnknownMethod answered with a method-not-found error.
UnknownMethodAnswered ==
    /\ CanRead
    /\ \E line \in IgnoredLines :
        /\ Read(line)
        /\ Println([jsonrpc |-> "2.0", id |-> ToJson(Decode(line).id),
                    error |-> [code |-> -32601, message |-> "Method not found"]])

\* _ => {}
UnknownMethod ==
    /\ CanRead
    /\ \E line \in IgnoredLines :
        /\ Read(line)
        /\ Silent

\* Leaving the loop: the locals of the last pass are dropped.
Leave ==
    /\ cur' = NoLine
    /\ call' = NoCall
    /\ errLine' = NoDiag
    /\ outcome' = NoOutcome
    /\ mark' = Len(out)
    /\ UNCHANGED <<out, nread>>

\* lines() is exhausted: the loop ends and main returns Ok(()).
EndOfStream ==
    /\ pc = "read"
    /\ pc' = "done"
    /\ Leave

\* ReadFailure with the read error reported on stdout before main returns.
ReadFailureReported ==
    /\ pc = "read"
    /\ pc' = "failed"
    /\ cur' = NoLine
    /\ call' = NoCall
    /\ errLine' = NoDiag
    /\ outcome' = NoOutcome
    /\ mark' = Len(out)
    /\ out' = Append(out, [jsonrpc |-> "2.0", id |-> JNull,
                           error |-> [code |-> -32000, message |-> "read error"]])
    /\ UNCHANGED nread

\* lines() yields Err: `line?` returns it from main.
ReadFailure ==
    /\ pc = "read"
    /\ pc' = "failed"
    /\ Leave

Next ==
    \/ SkipEmptyLine
    \/ ParseError
    \/ Initialize
    \/ Initialized
    \/ ToolsList
    \/ ToolsCallNoName
    \/ ToolsCallUnknownTool
    \/ ToolsCallFetch
    \/ FetchDone
    \/ UnknownMethod
    \/ EndOfStream
    \/ ReadFailure

Spec == Init /\ [][Next]_vars

\* The input is finite and every fetcher call completes: the reader goes on
\* to yield a line, the end of the stream or an error, and an awaited
\* fetcher returns.
FairSpec == Spec /\ WF_vars(Next)

(***************************************************************************)
(* Properties.                                                             *)
(***************************************************************************)
\* The line in cur is fully handled: the loop is back at its head.
Resolved == pc = "read" /\ cur # NoLine

\* The line is the text of a Request: a JSON object with a method string.
IsRequest(line) == line.kind = "request"

\* The text of the request has an id member.
HasId(line) == line.id # Absent

\* Number of reply lines written for cur so far.
RepliesForCur == Len(out) - mark

LastReply == out[Len(out)]

\* params is an object whose name member is the string `name`.
NamesTool(line, name) ==
    /\ line.params.t = "obj"
    /\ <<"name", JStr(name)>> \in line.params.m

NamesRegisteredTool(line) ==
    NamesTool(line, "fetch_problem") \/ NamesTool(line, "fetch_editorial")

\* params is an object whose name member is a string other than the two
\* registered names.
NamesUnknownTool(line) ==
    /\ line.params.t = "obj"
    /\ \E p \in line.params.m :
        p[1] = "name" /\ p[2].t = "str"
        /\ p[2].s \notin {"fetch_problem", "fetch_editorial"}

\* C1: a reply line is written for a handled request if and only if the
\* request carried an id.
C1_ReplyIffId ==
    (Resolved /\ IsRequest(cur)) => ((RepliesForCur = 1) <=> HasId(cur))

\* C2 as stated: every request with an id and a recognized method
\* (initialize, tools/list, tools/call) gets exactly one reply, whose id
\* equals the request's id.
C2_RecognizedMethodReplied ==
    (/\ Resolved
     /\ IsRequest(cur)
     /\ cur.method \in {"initialize", "tools/list", "tools/call"}
     /\ HasId(cur))
    => (RepliesForCur = 1 /\ LastReply.id = cur.id)

\* C2: every request with an id whose method is initialize or tools/list, or
\* tools/call naming a registered tool, gets exactly one reply, and the
\* reply's id equals the request's id, be it a string, a number or null.
C2_AnsweredEchoesId ==
    (/\ Resolved
     /\ IsRequest(cur)
     /\ \/ cur.method \in {"initialize", "tools/list"}
        \/ cur.method = "tools/call" /\ NamesRegisteredTool(cur)
     /\ HasId(cur))
    => (RepliesForCur = 1 /\ LastReply.id = cur.id)

\* A tools/call with a string id has been answered with that id, after a
\* request with a null id was answered with null.
C2_Witness ==
    /\ Resolved
    /\ cur.method = "tools/call"
    /\ cur.id = JStr("a")
    /\ Len(out) = 2
    /\ out[1].id = JNull
    /\ out[2].id = JStr("a")

\* C3: a line that is empty or does not decode into a request gets no
\* reply and no fetcher call, and leaves the loop at its head with the
\* output as it was, so that the lines after it are handled as they would
\* be without it.
C3_BadLineSkipped ==
    [][(nread' = nread + 1 /\ ~IsRequest(cur'))
        => (out' = out /\ pc' = pc /\ call' = NoCall)]_vars

\* A line that is no JSON has been handled as the third line, after two
\* lines that were answered.
C3_Witness ==
    /\ Resolved
    /\ cur.kind = "garbage"
    /\ nread = 3
    /\ Len(out) = 2
    /\ errLine = "Parse error"

\* C4: a tools/call whose params.name is a string that names no registered
\* tool gets no reply, with or without an id; the dispatcher writes the
\* diagnostic, calls no fetcher and is back at the head of the loop.
C4_UnknownToolNoReply ==
    (/\ cur # NoLine
     /\ IsRequest(cur)
     /\ cur.method = "tools/call"
     /\ NamesUnknownTool(cur))
    => /\ pc = "read"
       /\ RepliesForCur = 0
       /\ call = NoCall
       /\ errLine = "Unknown tool called: bogus_tool"

\* bogus_tool has been called with an id, after an answered request.
C4_Witness ==
    /\ Resolved
    /\ cur.method = "tools/call"
    /\ NamesTool(cur, "bogus_tool")
    /\ cur.id = JNum("2")
    /\ Len(out) = 1
    /\ mark = 1

\* The text `sub` occurs in the text `s`.
Contains(sub, s) ==
    \E i \in 1..(Len(s) - Len(sub) + 1) : SubSeq(s, i, i + Len(sub) - 1) = sub

\* What the reply text says of each way a fetcher fails.
FailureText(o) ==
    CASE o = "network" -> "error sending request"
      [] o = "http_status" -> "Status: 404"
      [] o = "no_element" -> "Could not find"

\* C5: when the fetcher call of a registered tool fails, the reply has a
\* result whose content is one text part carrying the error text; and no
\* reply line has an error member.
C5_FailureIsSuccessEnvelope ==
    /\ \A i \in 1..Len(out) :
        "error" \notin DOMAIN out[i] /\ "result" \in DOMAIN out[i]
    /\ (pc = "read" /\ outcome \in {"network", "http_status", "no_element"})
        => /\ RepliesForCur = 1
           /\ DOMAIN LastReply.result = {"content"}
           /\ Len(LastReply.result.content) = 1
           /\ DOMAIN LastReply.result.content[1] = {"type", "text"}
           /\ LastReply.result.content[1].type = "text"
           /\ Contains(FailureText(outcome), LastReply.result.content[1].text)

\* fetch_editorial has failed on the network and has been answered.
C5_Witness ==
    /\ pc = "read"
    /\ outcome = "network"
    /\ call.tool = "fetch_editorial"
    /\ RepliesForCur = 1
    /\ LastReply.result.content[1].text = "Error: error sending request"

\* C6 as stated: a tools/call without params is not dropped: the call
\* goes on with empty-string fields, so a fetcher is called, a reply is
\* written or the tool name is reported.
C6_AbsentParamsProceeds ==
    (/\ cur # NoLine
     /\ IsRequest(cur)
     /\ cur.method = "tools/call"
     /\ cur.params = Absent)
    => \/ pc = "await"
       \/ call # NoCall
       \/ RepliesForCur > 0
       \/ errLine # NoDiag

\* C6: a tools/call without params is dropped: no fetcher is called, no
\* reply and no diagnostic is written, and the loop is back at its head.
C6_AbsentParamsDropped ==
    (/\ cur # NoLine
     /\ IsRequest(cur)
     /\ cur.method = "tools/call"
     /\ cur.params = Absent)
    => /\ pc = "read"
       /\ call = NoCall
       /\ RepliesForCur = 0
       /\ errLine = NoDiag

\* A tools/call with an id and without params has been handled after an
\* answered request.
C6_Witness ==
    /\ Resolved
    /\ cur.method = "tools/call"
    /\ cur.params = Absent
    /\ cur.id = JNum("2")
    /\ Len(out) = 1

\* The arguments member of params, if params is an object that has one.
ArgumentsOf(line) ==
    IF line.params.t = "obj"
    THEN {p[2] : p \in {q \in line.params.m : q[1] = "arguments"}}
    ELSE {}

\* The member `key` of arguments, if arguments is an object that has one.
KeyValues(line, key) ==
    UNION {IF a.t = "obj"
           THEN {p[2] : p \in {q \in a.m : q[1] = key}}
           ELSE {} : a \in ArgumentsOf(line)}

\* arguments is absent or an object, and each of the two keys is missing
\* from it or a string.
KeysMissingOrStrings(line) ==
    /\ \A a \in ArgumentsOf(line) : a.t = "obj"
    /\ \A key \in {"contest_id", "problem_id"} :
        \A v \in KeyValues(line, key) : v.t = "str"

\* The supplied string of `key`, and the empty string for a missing key.
Supplied(line, key) ==
    IF KeyValues(line, key) = {}
    THEN ""
    ELSE (CHOOSE v \in KeyValues(line, key) : TRUE).s

\* C7: a registered tool called without arguments, or without one or both
\* of contest_id and problem_id, has its fetcher called with the empty
\* string for each missing key and the supplied string for each present
\* key, and gets one reply.
C7_MissingArgumentsForwardedEmpty ==
    (/\ cur # NoLine
     /\ IsRequest(cur)
     /\ cur.method = "tools/call"
     /\ NamesRegisteredTool(cur)
     /\ KeysMissingOrStrings(cur))
    => /\ pc \in {"await", "read"}
       /\ NamesTool(cur, call.tool)
       /\ call.contest_id = Supplied(cur, "contest_id")
       /\ call.problem_id = Supplied(cur, "problem_id")
       /\ RepliesForCur = (IF pc = "read" THEN 1 ELSE 0)

\* fetch_editorial has been called with problem_id alone and answered.
C7_Witness ==
    /\ Resolved
    /\ NamesTool(cur, "fetch_editorial")
    /\ KeyValues(cur, "contest_id") = {}
    /\ KeyValues(cur, "problem_id") = {JStr("abc335_a")}
    /\ call = [tool |-> "fetch_editorial", contest_id |-> "",
               problem_id |-> "abc335_a"]
    /\ RepliesForCur = 1

\* C8: a notifications/initialized request gets no reply, with or without
\* an id and whatever its params.
C8_InitializedSilent ==
    (/\ cur # NoLine
     /\ IsRequest(cur)
     /\ cur.method = "notifications/initialized")
    => /\ pc = "read"
       /\ RepliesForCur = 0
       /\ call = NoCall

\* notifications/initialized has been handled with an id and with params,
\* after an answered request.
C8_Witness ==
    /\ Resolved
    /\ cur.method = "notifications/initialized"
    /\ cur.id = JNum("2")
    /\ cur.params # Absent
    /\ Len(out) = 1

\* C9: a request whose method is none of the four known ones is ignored:
\* no reply, no fetcher call, no diagnostic, and the loop is back at its
\* head, with or without an id.
C9_UnknownMethodIgnored ==
    (/\ cur # NoLine
     /\ IsRequest(cur)
     /\ cur.method \notin {"initialize", "notifications/initialized",
                           "tools/list", "tools/call"})
    => /\ pc = "read"
       /\ RepliesForCur = 0
       /\ call = NoCall
       /\ errLine = NoDiag

\* ping has been handled with an id, after an answered request.
C9_Witness ==
    /\ Resolved
    /\ cur.method = "ping"
    /\ cur.id = JNum("2")
    /\ Len(out) = 1

\* The reply of a tools/list.
IsToolsListReply(r) ==
    "result" \in DOMAIN r /\ "tools" \in DOMAIN r.result

\* A descriptor with name, description and a schema that requires the
\* strings contest_id and problem_id.
IsDescriptorOf(d, name) ==
    /\ DOMAIN d = {"name", "description", "inputSchema"}
    /\ d.name = name
    /\ d.inputSchema.type = "object"
    /\ d.inputSchema.required = <<"contest_id", "problem_id">>
    /\ d.inputSchema.properties.contest_id.type = "string"
    /\ d.inputSchema.properties.problem_id.type = "string"

\* C10: any two tools/list replies of a run have the same descriptors in
\* the same order, fetch_problem and then fetch_editorial.
C10_ToolsListStable ==
    /\ \A i, j \in 1..Len(out) :
        (IsToolsListReply(out[i]) /\ IsToolsListReply(out[j]))
            => out[i].result = out[j].result
    /\ \A i \in 1..Len(out) :
        IsToolsListReply(out[i])
            => /\ Len(out[i].result.tools) = 2
               /\ IsDescriptorOf(out[i].result.tools[1], "fetch_problem")
               /\ IsDescriptorOf(out[i].result.tools[2], "fetch_editorial")

\* tools/list has been answered twice, for a request with a number id and
\* for one without an id, with a failed fetch answered in between.
C10_Witness ==
    /\ Len(out) = 3
    /\ IsToolsListReply(out[1])
    /\ out[1].id = JNum("2")
    /\ "content" \in DOMAIN out[2].result
    /\ IsToolsListReply(out[3])
    /\ out[3].id = JNull
    /\ cur.id = Absent

\* The id a reply to `line` carries: the line's id, and null without one.
EchoedId(line) == IF line.id = Absent THEN JNull ELSE line.id

\* A fetcher call has been made for cur and has not completed.
FetcherOutstanding == call # NoCall /\ outcome = NoOutcome

\* C11: a line is read only at the head of the loop with no fetcher call
\* outstanding; while a call is outstanding main is in its .await; and
\* every reply is appended to the output as the one reply of the line read
\* last, so replies come in the order of their requests.
C11_InOrderNoOverlap ==
    [][/\ (nread' # nread) => (pc = "read" /\ ~FetcherOutstanding)
       /\ FetcherOutstanding' => (pc' = "await")
       /\ (out' # out)
            => /\ Len(out') = Len(out) + 1
               /\ SubSeq(out', 1, Len(out)) = out
               /\ out'[Len(out')].id = EchoedId(cur')
               /\ mark' = Len(out)]_vars

\* Three requests with ids 2, "a" and null have been answered in that
\* order, the second one after its fetcher call completed.
C11_Witness ==
    /\ Resolved
    /\ nread = 3
    /\ Len(out) = 3
    /\ out[1].id = JNum("2")
    /\ "content" \in DOMAIN out[2].result
    /\ out[2].id = JStr("a")
    /\ out[3].id = JNull

\* The request of the scenario: fetch_problem called with id 2 for abc335,
\* abc335_a, and the fetch ended in status 404.
StatusScenario ==
    /\ Resolved
    /\ cur = RequestLine("tools/call", ParamsOf(JStr("fetch_problem"), FullArgs),
                         JNum("2"))
    /\ outcome = "http_status"

\* The success envelope with id 2 and the one text part `text`.
TextEnvelope(text) ==
    [jsonrpc |-> "2.0", id |-> JNum("2"),
     result |-> [content |-> << [type |-> "text", text |-> text] >>]]

\* C12 as stated: the one reply of the scenario is the success envelope
\* with id 2 and the text "Error: Failed to fetch page. Status: 404".
C12_StatusTextIsNumber ==
    StatusScenario
    => /\ RepliesForCur = 1
       /\ LastReply = TextEnvelope("Error: Failed to fetch page. Status: 404")

\* C12: the one reply of the scenario is the success envelope with id 2
\* and the text "Error: Failed to fetch page. Status: 404 Not Found": the
\* status is written with its reason phrase.
C12_StatusTextHasReason ==
    StatusScenario
    => /\ RepliesForCur = 1
       /\ LastReply =
            TextEnvelope("Error: Failed to fetch page. Status: 404 Not Found")

\* The scenario has happened, as the second line of a run.
C12_Witness ==
    /\ StatusScenario
    /\ call = [tool |-> "fetch_problem", contest_id |-> "abc335",
               problem_id |-> "abc335_a"]
    /\ nread = 2

\* The reply of an initialize.
IsInitializeReply(r) ==
    "result" \in DOMAIN r /\ "protocolVersion" \in DOMAIN r.result

\* C13: every initialize with an id gets one reply with that id, and every
\* initialize reply of a run has the same result: protocolVersion
\* "2024-11-05", capabilities {tools: {}} and a serverInfo of name and
\* version, whatever the params and whatever was handled before.
C13_InitializeResultFixed ==
    /\ \A i, j \in 1..Len(out) :
        (IsInitializeReply(out[i]) /\ IsInitializeReply(out[j]))
            => out[i].result = out[j].result
    /\ \A i \in 1..Len(out) :
        IsInitializeReply(out[i])
            => /\ DOMAIN out[i].result =
                    {"protocolVersion", "capabilities", "serverInfo"}
               /\ out[i].result.protocolVersion = "2024-11-05"
               /\ out[i].result.capabilities = [tools |-> {}]
               /\ DOMAIN out[i].result.serverInfo = {"name", "version"}
    /\ (Resolved /\ IsRequest(cur) /\ cur.method = "initialize" /\ HasId(cur))
        => /\ RepliesForCur = 1
           /\ IsInitializeReply(LastReply)
           /\ LastReply.id = cur.id

\* initialize has been answered twice, the second time with params, with
\* a tool call answered in between.
C13_Witness ==
    /\ Resolved
    /\ Len(out) = 3
    /\ IsInitializeReply(out[1])
    /\ out[1].id = JStr("a")
    /\ "content" \in DOMAIN out[2].result
    /\ IsInitializeReply(out[3])
    /\ out[3].id = JNum("2")
    /\ cur.method = "initialize"
    /\ cur.params # Absent

\* Handling cur met a failure: the line did not decode, its method or its
\* tool is unknown, or its fetcher call failed.
FailureMet ==
    /\ cur # NoLine
    /\ \/ cur.kind \in {"blank", "garbage", "nomethod"}
       \/ /\ IsRequest(cur)
          /\ cur.method \notin {"initialize", "notifications/initialized",
                                "tools/list", "tools/call"}
       \/ IsRequest(cur) /\ cur.method = "tools/call" /\ NamesUnknownTool(cur)
       \/ outcome \in {"network", "http_status", "no_element"}

\* C14: after a decode failure, an unknown method, an unknown tool or a
\* fetcher failure of any kind, main has not returned: the loop is at its
\* head, where it takes the next line.
C14_FailuresNotFatal ==
    FailureMet => pc = "read"

\* A fetcher call has failed on the network on the third line, after two
\* lines that got no reply.
C14_Witness ==
    /\ pc = "read"
    /\ outcome = "network"
    /\ nread = 3
    /\ mark = 0
    /\ Len(out) = 1

\* What is written for `line` when its fetcher call, if it makes one, ends
\* in `o`: a value of the line and the outcome alone.
OutputOf(line, o) ==
    IF ~IsRequest(line) THEN <<>>
    ELSE IF line.method = "initialize"
        THEN <<InitializeResponse(Decode(line).id)>>
    ELSE IF line.method = "tools/list"
        THEN <<ToolsListResponse(Decode(line).id)>>
    ELSE IF line.method = "tools/call" /\ NamesRegisteredTool(line)
        THEN <<ToolCallResponse(Decode(line).id,
                                ResultText(FetcherCall(line), o))>>
    ELSE <<>>

\* C15: what is written for a line depends on the line and on the outcome
\* of its fetcher call only, not on the lines handled before it.
C15_OutputOfLineAlone ==
    Resolved => SubSeq(out, mark + 1, Len(out)) = OutputOf(cur, outcome)

\* A tool has been called and answered as the third line of a run in which
\* no initialize was answered.
C15_Witness ==
    /\ Resolved
    /\ nread = 3
    /\ cur.method = "tools/call"
    /\ outcome = "ok"
    /\ RepliesForCur = 1
    /\ \A i \in 1..Len(out) : ~IsInitializeReply(out[i])
    /\ Len(out) = 2
    /\ IsToolsListReply(out[1])

\* The names that a tools/list reply announces.
AnnouncedNames(r) == {r.result.tools[k].name : k \in 1..Len(r.result.tools)}

\* The names that tools/list announces in this program.
ListedNames == AnnouncedNames(ToolsListResponse(None))

\* The string that params.name is, if params is an object and it is one.
CalledNames(line) ==
    IF line.params.t = "obj"
    THEN {p[2].s : p \in {q \in line.params.m : q[1] = "name" /\ q[2].t = "str"}}
    ELSE {}

\* C16: the names that tools/list announces are the names that tools/call
\* resolves: a call of an announced name calls the fetcher of that name and
\* gets one reply; a call of any other name is reported as an unknown tool,
\* calls nothing and gets no reply.
C16_ListedNamesAreCallable ==
    /\ \A i \in 1..Len(out) :
        IsToolsListReply(out[i]) => AnnouncedNames(out[i]) = ListedNames
    /\ (cur # NoLine /\ IsRequest(cur) /\ cur.method = "tools/call")
        => \A n \in CalledNames(cur) :
            IF n \in ListedNames
            THEN /\ pc \in {"await", "read"}
                 /\ call.tool = n
                 /\ RepliesForCur = (IF pc = "read" THEN 1 ELSE 0)
            ELSE /\ pc = "read"
                 /\ call = NoCall
                 /\ RepliesForCur = 0
                 /\ errLine = "Unknown tool called: " \o n

\* fetch_editorial has been called and answered after tools/list announced
\* it.
C16_Witness ==
    /\ Resolved
    /\ Len(out) = 2
    /\ IsToolsListReply(out[1])
    /\ "fetch_editorial" \in AnnouncedNames(out[1])
    /\ CalledNames(cur) = {"fetch_editorial"}
    /\ call.tool = "fetch_editorial"
    /\ RepliesForCur = 1

\* The text begins with "Error: ".
HasErrorFraming(text) ==
    Len(text) >= 7 /\ SubSeq(text, 1, 7) = "Error: "

\* The other registered tool.
OtherTool(tool) ==
    IF tool = "fetch_problem" THEN "fetch_editorial" ELSE "fetch_problem"

\* C17: the text written for a failed fetcher call has the "Error: "
\* framing, and so has the text that the other tool writes for a failure
\* of the same kind.
C17_SameErrorFraming ==
    (pc = "read" /\ outcome \in {"network", "http_status", "no_element"})
    => /\ HasErrorFraming(LastReply.result.content[1].text)
       /\ HasErrorFraming(ResultText([call EXCEPT !.tool = OtherTool(call.tool)],
                                     outcome))

\* main has returned.
Terminated == pc \in {"done", "failed"}

\* C18: on a finite input whose fetcher calls complete, a line whose
\* fetcher is awaited is eventually answered and main eventually returns;
\* main returns from the head of the loop only, on the end of the stream
\* or on a read error, without reading a line or writing a reply in that
\* step, and does nothing after it has returned.
C18_HandlesAllThenReturns ==
    /\ <>Terminated
    /\ (pc = "await") ~> (pc = "read" /\ RepliesForCur = 1)
    /\ [][/\ ~Terminated
          /\ Terminated' => (pc = "read" /\ out' = out /\ nread' = nread)]_vars

\* main has returned Ok(()) after three lines that were all answered.
C18_Witness ==
    /\ pc = "done"
    /\ nread = 3
    /\ Len(out) = 3

\* C19: a tools/call whose params is there but has no name that is a
\* string (the name is missing or no string, or params is no object) gets
\* no reply, no fetcher call and no diagnostic, with or without an id, and
\* the loop is back at its head.
C19_NamelessCallDropped ==
    (/\ cur # NoLine
     /\ IsRequest(cur)
     /\ cur.method = "tools/call"
     /\ cur.params # Absent
     /\ CalledNames(cur) = {})
    => /\ pc = "read"
       /\ RepliesForCur = 0
       /\ call = NoCall
       /\ errLine = NoDiag

\* A tools/call with an id and a number as its name has been handled after
\* an answered request.
C19_Witness ==
    /\ Resolved
    /\ cur.method = "tools/call"
    /\ cur.id = JNum("2")
    /\ cur.params.t = "obj"
    /\ <<"name", JNum("7")>> \in cur.params.m
    /\ Len(out) = 1

\* The argument that the fetcher call `c` passes for `key`.
PassedFor(c, key) ==
    IF key = "contest_id" THEN c.contest_id ELSE c.problem_id

\* C20: when a registered tool is called with a contest_id or problem_id
\* that is there but is no string, the fetcher is called with the empty
\* string for it, as for a missing key, and with the supplied string for a
\* key that is a string.
C20_NonStringArgumentIsEmpty ==
    (/\ cur # NoLine
     /\ IsRequest(cur)
     /\ cur.method = "tools/call"
     /\ NamesRegisteredTool(cur))
    => /\ pc \in {"await", "read"}
       /\ NamesTool(cur, call.tool)
       /\ \A key \in {"contest_id", "problem_id"} :
            \A v \in KeyValues(cur, key) :
                PassedFor(call, key) = (IF v.t = "str" THEN v.s ELSE "")

\* fetch_problem has been called with a number as contest_id and a string
\* as problem_id, and answered.
C20_Witness ==
    /\ Resolved
    /\ NamesTool(cur, "fetch_problem")
    /\ KeyValues(cur, "contest_id") = {JNum("335")}
    /\ KeyValues(cur, "problem_id") = {JStr("abc335_a")}
    /\ call = [tool |-> "fetch_problem", contest_id |-> "",
               problem_id |-> "abc335_a"]
    /\ RepliesForCur = 1

====
